---- MODULE Spec2Model ----
(***************************************************************************)
(* A model of pytest_rpc/__init__.py: the hook callbacks of the plug-in,   *)
(* the two option helpers and get_xsd, driven through the host runner's    *)
(* lifecycle (collection, pytest_collection_modifyitems,                    *)
(* pytest_runtestloop, per-test setup and teardown, pytest_sessionfinish).  *)
(***************************************************************************)
EXTENDS Integers, Sequences, FiniteSets, TLC

VARIABLES session, environ, items, global_properties, pc, idx, clock,
          raised, caught, exitstatus, zz, call, ret

\* session           the session's configuration: option lookups, plug-ins, _xml
\* environ           os.environ
\* items             the collected items: markers and user_properties
\* global_properties the pairs passed to junit_xml_config.add_global_property
\* pc, idx           the hook the host calls next, and the item it passes
\* clock             the position of datetime.utcnow() in Times
\* raised            the (hook, exception) pairs that left a hook
\* caught            the exception pytest_sessionfinish's except clause swallowed
\* exitstatus        the exit status the host hands to pytest_sessionfinish
\* zz                the uploader: not built, constructed, or uploaded
\* call, ret         a direct call of a helper or of get_xsd, and its outcome
vars == <<session, environ, items, global_properties, pc, idx, clock,
          raised, caught, exitstatus, zz, call, ret>>

(***************************************************************************)
(* Bounds                                                                  *)
(***************************************************************************)
MaxItems == 2

(***************************************************************************)
(* Python values: None, str and bool, with Python's truth test and `or`.   *)
(***************************************************************************)
PyNone == [t |-> "none", v |-> "None"]

Str(s) == [t |-> "str", v |-> s]

Bool(b) == [t |-> "bool", v |-> IF b THEN "True" ELSE "False"]

Truthy(x) ==
    CASE x.t = "none" -> FALSE
      [] x.t = "str"  -> x.v # ""
      [] x.t = "bool" -> x.v = "True"

PyOr(a, b) == IF Truthy(a) THEN a ELSE b

\* The outcome of a call: the exception it raises ("None" when it returns)
\* and the value it returns.
Returns(x) == [exc |-> "None", val |-> x]

Raises(e) == [exc |-> e, val |-> PyNone]

(***************************************************************************)
(* Globals                                                                 *)
(***************************************************************************)
ASC_ENV_VARS ==
    << "BUILD_URL", "BUILD_NUMBER", "RE_JOB_ACTION", "RE_JOB_IMAGE",
       "RE_JOB_SCENARIO", "RE_JOB_BRANCH", "RPC_RELEASE",
       "RPC_PRODUCT_RELEASE", "OS_ARTIFACT_SHA", "PYTHON_ARTIFACT_SHA",
       "APT_ARTIFACT_SHA", "REPO_URL", "JOB_NAME", "MOLECULE_TEST_REPO",
       "MOLECULE_SCENARIO_NAME", "MOLECULE_GIT_COMMIT" >>

MK8S_ENV_VARS ==
    << "BUILD_URL", "BUILD_NUMBER", "BUILD_ID", "NODE_NAME", "JOB_NAME",
       "BUILD_TAG", "JENKINS_URL", "EXECUTOR_NUMBER", "WORKSPACE",
       "CVS_BRANCH", "GIT_COMMIT", "GIT_URL", "GIT_BRANCH",
       "GIT_LOCAL_BRANCH", "GIT_AUTHOR_NAME", "GIT_AUTHOR_EMAIL",
       "BRANCH_NAME", "CHANGE_AUTHOR_DISPLAY_NAME", "CHANGE_AUTHOR",
       "CHANGE_BRANCH", "CHANGE_FORK", "CHANGE_ID", "CHANGE_TARGET",
       "CHANGE_TITLE", "CHANGE_URL", "JOB_URL", "NODE_LABELS", "NODE_NAME",
       "PWD", "STAGE_NAME" >>

\* The names bound at module level: the imports, the globals and the
\* functions.  A name outside this set raises NameError when evaluated.
ModuleGlobals ==
    { "__version__", "os", "pytest", "pkg_resources", "datetime", "ZigZag",
      "ASC_ENV_VARS", "MK8S_ENV_VARS", "_capture_marks",
      "_get_ci_environment", "_get_option_of_highest_precedence",
      "pytest_sessionfinish", "pytest_runtestloop",
      "pytest_collection_modifyitems", "pytest_runtest_setup",
      "pytest_runtest_teardown", "pytest_addoption", "get_xsd" }

OptionNames == {"ci-environment", "zigzag", "qtest-project-id"}

(***************************************************************************)
(* The session's configuration as the plug-in reads it: for each option    *)
(* the outcome of config.getoption and of config.getini, the junitxml      *)
(* plug-in, and config._xml.                                                *)
(***************************************************************************)
getoption(sess, option_name) == sess.options[option_name].cli

getini(sess, option_name) == sess.options[option_name].ini

hasplugin(sess, name) == name \in sess.plugins

\* os.getenv(name, default)
os_getenv(env, name, default) ==
    IF name \in DOMAIN env THEN env[name] ELSE default

(***************************************************************************)
(* Functions: Private                                                      *)
(***************************************************************************)
MutIniFirst(sess, option_name) ==
    LET cli_option == IF getoption(sess, option_name).exc = "ValueError"
                      THEN PyNone ELSE getoption(sess, option_name).val
        ini_option == IF getini(sess, option_name).exc = "ValueError"
                      THEN PyNone ELSE getini(sess, option_name).val
    IN  Returns(PyOr(ini_option, cli_option))

_get_option_of_highest_precedence(sess, option_name) ==
    LET cli_option == IF getoption(sess, option_name).exc = "ValueError"
                      THEN PyNone ELSE getoption(sess, option_name).val
        ini_option == IF getini(sess, option_name).exc = "ValueError"
                      THEN PyNone ELSE getini(sess, option_name).val
        highest_precedence == PyOr(cli_option, ini_option)
    IN  Returns(highest_precedence)

_get_ci_environment(sess) ==
    LET highest_precedence ==
            PyOr(_get_option_of_highest_precedence(sess, "ci-environment").val,
                 Str("asc"))
        white_list == <<Str("asc"), Str("mk8s")>>
    IN  IF ~(\E i \in 1..Len(white_list) : white_list[i] = highest_precedence)
        THEN Raises("RuntimeError")
        ELSE Returns(highest_precedence)

\* item.get_marker(mark): the marker's arguments, or None when the item does
\* not carry the marker.
get_marker(item, mark) ==
    IF mark \in DOMAIN item.markers /\ item.markers[mark].present
    THEN Returns([t |-> "MarkInfo", v |-> mark, args |-> item.markers[mark].args])
    ELSE Returns(PyNone)

\* The inner loops of _capture_marks for one item: for mark in marks, for arg
\* in marker.args, append (mark, arg).
RECURSIVE CaptureItem(_, _)
CaptureItem(item, marks) ==
    IF marks = <<>> THEN item
    ELSE LET mark == Head(marks)
             marker == get_marker(item, mark).val
             appended ==
                 IF marker.t # "none"
                 THEN [item EXCEPT !.user_properties =
                          @ \o [i \in 1..Len(marker.args) |->
                                   <<mark, marker.args[i]>>]]
                 ELSE item
         IN  CaptureItem(appended, Tail(marks))

MutCaptureAllMarkers(its, marks) ==
    [n \in 1..Len(its) |-> CaptureItem(its[n], marks \o <<"skip">>)]

_capture_marks(its, marks) ==
    [n \in 1..Len(its) |-> CaptureItem(its[n], marks)]

(***************************************************************************)
(* datetime.utcnow().strftime('%Y-%m-%dT%H:%M:%SZ')                        *)
(***************************************************************************)
Digits == <<"0", "1", "2", "3", "4", "5", "6", "7", "8", "9">>

\* %m %d %H %M %S: two digits, zero padded.
Pad2(n) == <<Digits[((n \div 10) % 10) + 1], Digits[(n % 10) + 1]>>

\* %Y for the four-digit years utcnow() returns.
Pad4(n) == <<Digits[((n \div 1000) % 10) + 1], Digits[((n \div 100) % 10) + 1],
             Digits[((n \div 10) % 10) + 1], Digits[(n % 10) + 1]>>

strftime(dt) ==
    Pad4(dt.year) \o <<"-">> \o Pad2(dt.month) \o <<"-">> \o Pad2(dt.day)
      \o <<"T">> \o Pad2(dt.hour) \o <<":">> \o Pad2(dt.minute)
      \o <<":">> \o Pad2(dt.second) \o <<"Z">>

(***************************************************************************)
(* Functions: Public                                                       *)
(***************************************************************************)
NoUploader == [state |-> "none", args |-> <<>>]

\* The body of the try block of pytest_sessionfinish: the arguments of
\* ZigZag(...) are evaluated left to right, then the constructor runs, then
\* upload_test_results.  lib is what the upload library does when reached.
TryUpload(junit_file_path, env, qtest_project_id, lib) ==
    IF "QTEST_API_TOKEN" \notin DOMAIN env
    THEN [exc |-> "KeyError", zz |-> NoUploader]
    ELSE IF "qtest_test_cycle" \notin ModuleGlobals
    THEN [exc |-> "NameError", zz |-> NoUploader]
    ELSE IF "pprint_on_fail" \notin ModuleGlobals
    THEN [exc |-> "NameError", zz |-> NoUploader]
    ELSE LET built == <<junit_file_path, env["QTEST_API_TOKEN"], qtest_project_id>>
         IN  IF lib = "constructor_raises"
             THEN [exc |-> "Exception", zz |-> NoUploader]
             ELSE IF lib = "upload_raises"
             THEN [exc |-> "Exception",
                   zz |-> [state |-> "constructed", args |-> built]]
             ELSE [exc |-> "None", zz |-> [state |-> "uploaded", args |-> built]]

Untouched == [exc |-> "None", caught |-> "None", zz |-> NoUploader]

\* The same hook with the token read before the try block.
MutTokenOutsideTry(sess, env, lib) ==
    IF hasplugin(sess, "junitxml")
       /\ Truthy(_get_option_of_highest_precedence(sess, "zigzag").val)
       /\ Truthy(_get_option_of_highest_precedence(sess, "qtest-project-id").val)
       /\ sess.xml.present /\ sess.xml.logfile # ""
    THEN IF "QTEST_API_TOKEN" \notin DOMAIN env
         THEN [exc |-> "KeyError", caught |-> "None", zz |-> NoUploader]
         ELSE LET t == TryUpload(sess.xml.logfile, env,
                         _get_option_of_highest_precedence(sess, "qtest-project-id").val,
                         lib)
              IN  [exc |-> "None", caught |-> t.exc, zz |-> t.zz]
    ELSE Untouched

\* pytest_sessionfinish(session, exitstatus, terminalreporter): the exception
\* that leaves the hook, the exception the except clause swallowed, and the
\* uploader.
SessionFinish(sess, env, lib) ==
    IF hasplugin(sess, "junitxml")
    THEN IF Truthy(_get_option_of_highest_precedence(sess, "zigzag").val)
         THEN LET qtest_project_id ==
                      _get_option_of_highest_precedence(sess, "qtest-project-id").val
              IN  IF Truthy(qtest_project_id)
                  THEN IF ~sess.xml.present
                       \* getattr(session.config, '_xml', None).logfile on None
                       THEN [exc |-> "AttributeError", caught |-> "None",
                             zz |-> NoUploader]
                       ELSE LET junit_file_path == sess.xml.logfile
                            IN  IF junit_file_path # ""
                                THEN LET t == TryUpload(junit_file_path, env,
                                                        qtest_project_id, lib)
                                     IN  [exc |-> "None", caught |-> t.exc,
                                          zz |-> t.zz]
                                ELSE Untouched
                  ELSE Untouched
         ELSE Untouched
    ELSE Untouched

\* One allowlist recorded: for env_var in L: add_global_property(env_var,
\* os.getenv(env_var, 'Unknown')).
AddEnvVars(props, L, env) ==
    props \o [i \in 1..Len(L) |-> <<L[i], os_getenv(env, L[i], "Unknown")>>]

MutSwappedAllowlists(sess, env, props) ==
    IF hasplugin(sess, "junitxml") /\ sess.xml.present
    THEN LET ci_environment == _get_ci_environment(sess)
         IN  IF ci_environment.exc # "None"
             THEN [exc |-> ci_environment.exc, props |-> props]
             ELSE [exc |-> "None",
                   props |-> AddEnvVars(
                       Append(props, <<"ci-environment", ci_environment.val.v>>),
                       IF ci_environment.val = Str("asc")
                       THEN MK8S_ENV_VARS ELSE ASC_ENV_VARS, env)]
    ELSE [exc |-> "None", props |-> props]

MutNoValidation(sess, env, props) ==
    IF hasplugin(sess, "junitxml") /\ sess.xml.present
    THEN LET ci == PyOr(_get_option_of_highest_precedence(sess, "ci-environment").val,
                        Str("asc"))
             recorded == Append(props, <<"ci-environment", ci.v>>)
         IN  [exc |-> "None",
              props |-> IF ci = Str("asc") THEN AddEnvVars(recorded, ASC_ENV_VARS, env)
                        ELSE IF ci = Str("mk8s")
                        THEN AddEnvVars(recorded, MK8S_ENV_VARS, env)
                        ELSE recorded]
    ELSE [exc |-> "None", props |-> props]

\* pytest_runtestloop(session): the exception that leaves the hook and the
\* global properties of the junit XML object afterwards.
RunTestLoop(sess, env, props) ==
    IF hasplugin(sess, "junitxml")
    THEN IF sess.xml.present
         THEN LET ci_environment == _get_ci_environment(sess)
              IN  IF ci_environment.exc # "None"
                  THEN [exc |-> ci_environment.exc, props |-> props]
                  ELSE LET recorded ==
                               Append(props,
                                      <<"ci-environment", ci_environment.val.v>>)
                       IN  [exc |-> "None",
                            props |->
                              IF ci_environment.val = Str("asc")
                              THEN AddEnvVars(recorded, ASC_ENV_VARS, env)
                              ELSE IF ci_environment.val = Str("mk8s")
                              THEN AddEnvVars(recorded, MK8S_ENV_VARS, env)
                              ELSE recorded]
         ELSE [exc |-> "None", props |-> props]
    ELSE [exc |-> "None", props |-> props]

MutXsdDefaultsToAsc(args) ==
    LET ci_environment == IF args = <<>> THEN Str("asc") ELSE args[1]
    IN  IF ci_environment = Str("mk8s")
        THEN Returns([t |-> "stream", v |-> "pytest_rpc:data/mk8s_junit.xsd"])
        ELSE Returns([t |-> "stream", v |-> "pytest_rpc:data/molecule_junit.xsd"])

\* get_xsd(ci_environment='asc'); args is the tuple of arguments of the call.
get_xsd(args) ==
    LET ci_environment == IF args = <<>> THEN Str("asc") ELSE args[1]
    IN  IF ci_environment = Str("asc")
        THEN Returns([t |-> "stream", v |-> "pytest_rpc:data/molecule_junit.xsd"])
        ELSE IF ci_environment = Str("mk8s")
        THEN Returns([t |-> "stream", v |-> "pytest_rpc:data/mk8s_junit.xsd"])
        ELSE Raises("RuntimeError")

(***************************************************************************)
(* Inputs: the configurations, environments, items and clock readings the  *)
(* runs are drawn from.                                                     *)
(***************************************************************************)
NoXml == [present |-> FALSE, logfile |-> ""]

\* The junitxml plug-in blocked; registered without --junitxml; registered
\* with a LogXML object in config._xml.
JunitSetups ==
    { [plugins |-> {}, xml |-> NoXml],
      [plugins |-> {"junitxml"}, xml |-> NoXml],
      [plugins |-> {"junitxml"}, xml |-> [present |-> TRUE, logfile |-> ""]],
      [plugins |-> {"junitxml"},
       xml |-> [present |-> TRUE, logfile |-> "/tmp/junit.xml"]] }

CiLookups ==
    { [cli |-> Returns(c), ini |-> Returns(i)] :
        c \in {PyNone, Str("mk8s"), Str("bogus")},
        i \in {Str(""), Str("asc"), Str("bogus")} }

FlagLookups ==
    { [cli |-> Returns(Bool(FALSE)), ini |-> Returns(Bool(FALSE))],
      [cli |-> Returns(Bool(TRUE)), ini |-> Returns(Bool(FALSE))],
      [cli |-> Returns(Bool(FALSE)), ini |-> Returns(Bool(TRUE))] }

MakeSession(ci, zigzag, project, junit) ==
    [options |-> [n \in OptionNames |->
                     IF n = "ci-environment" THEN ci
                     ELSE IF n = "zigzag" THEN zigzag ELSE project],
     plugins |-> junit.plugins,
     xml |-> junit.xml]

Sessions ==
    { MakeSession(ci, z, p, j) :
        ci \in CiLookups, z \in FlagLookups, p \in FlagLookups, j \in JunitSetups }

DefaultSession ==
    MakeSession([cli |-> Returns(PyNone), ini |-> Returns(Str(""))],
                [cli |-> Returns(Bool(FALSE)), ini |-> Returns(Bool(FALSE))],
                [cli |-> Returns(Bool(FALSE)), ini |-> Returns(Bool(FALSE))],
                [plugins |-> {"junitxml"}, xml |-> NoXml])

EnvNone == [n \in {} |-> ""]

EnvJenkins ==
    [n \in {"BUILD_URL", "NODE_NAME", "RPC_RELEASE", "PWD"} |->
        CASE n = "BUILD_URL"   -> "http://ci/job/1/"
          [] n = "NODE_NAME"   -> "master"
          [] n = "RPC_RELEASE" -> ""
          [] n = "PWD"         -> "/home/ci"]

Environs ==
    { EnvNone, EnvJenkins,
      EnvNone @@ ("QTEST_API_TOKEN" :> "secret"),
      EnvJenkins @@ ("QTEST_API_TOKEN" :> "secret") }

MarkNames == {"test_id", "jira", "skip"}

NoMark == [present |-> FALSE, args |-> <<>>]

Mark(a) == [present |-> TRUE, args |-> a]

TestIdMarks == {NoMark, Mark(<<>>), Mark(<<"T1">>), Mark(<<"T1", "T2">>)}

JiraMarks ==
    { NoMark, Mark(<<"ABC-123">>), Mark(<<"ABC-123", "ABC-456">>),
      Mark(<<"ABC-456", "ABC-123">>), Mark(<<"ABC-123", "ABC-123">>) }

SkipMarks == {NoMark, Mark(<<"jira">>)}

\* A collected item: its markers and an empty user_properties list.
MakeItem(t, j, s) ==
    [markers |-> [m \in MarkNames |->
                     IF m = "test_id" THEN t ELSE IF m = "jira" THEN j ELSE s],
     user_properties |-> <<>>]

MarkedItems ==
    { MakeItem(t, j, s) : t \in TestIdMarks, j \in JiraMarks, s \in SkipMarks }

SampleItems ==
    { MakeItem(NoMark, NoMark, NoMark),
      MakeItem(Mark(<<"T1">>), Mark(<<"ABC-123">>), NoMark) }

ItemLists(S) == UNION { [1..n -> S] : n \in 0..MaxItems }

\* The readings of datetime.utcnow(), in the order the clock passes them.
Times ==
    << [year |-> 2018, month |-> 9, day |-> 5, hour |-> 7, minute |-> 3,
        second |-> 9],
       [year |-> 2018, month |-> 12, day |-> 31, hour |-> 23, minute |-> 59,
        second |-> 59] >>

LibraryOutcomes == {"ok", "constructor_raises", "upload_raises"}

NoCall == [fn |-> "none", sess |-> DefaultSession, name |-> "", args |-> <<>>]

LookupOutcomes ==
    { Raises("ValueError") } \cup
    { Returns(x) : x \in { PyNone, Str(""), Str("asc"), Str("mk8s"),
                           Str("bogus"), Bool(TRUE), Bool(FALSE) } }

XsdArguments ==
    { <<>> } \cup
    { <<x>> : x \in { Str("asc"), Str("mk8s"), Str("ASC"), Str(""),
                      Str("bogus"), PyNone, Bool(TRUE) } }

(***************************************************************************)
(* The run: the host runner calls the hooks in its lifecycle order.        *)
(***************************************************************************)
Init ==
    /\ session \in Sessions
    /\ environ \in Environs
    /\ items = <<>>
    /\ global_properties = <<>>
    /\ pc = "collection"
    /\ idx = 0
    /\ clock = 1
    /\ raised = {}
    /\ caught = "None"
    /\ exitstatus = "OK"
    /\ zz = NoUploader
    /\ call = NoCall
    /\ ret = Returns(PyNone)

\* Collection has been performed: the host hands the collected items to
\* pytest_collection_modifyitems.
Collect(S) ==
    /\ pc = "collection"
    /\ items' \in ItemLists(S)
    /\ pc' = "modifyitems"
    /\ UNCHANGED <<session, environ, global_properties, idx, clock, raised,
                   caught, exitstatus, zz, call, ret>>

perform_collect == Collect(SampleItems)

perform_collect_marked == Collect(MarkedItems)

pytest_collection_modifyitems ==
    /\ pc = "modifyitems"
    /\ items' = _capture_marks(items, <<"test_id", "jira">>)
    /\ pc' = "runtestloop"
    /\ UNCHANGED <<session, environ, global_properties, idx, clock, raised,
                   caught, exitstatus, zz, call, ret>>

\* An exception leaving pytest_runtestloop ends the run with an internal
\* error; the host still calls pytest_sessionfinish.
pytest_runtestloop ==
    /\ pc = "runtestloop"
    /\ LET out == RunTestLoop(session, environ, global_properties)
       IN  /\ global_properties' = out.props
           /\ IF out.exc # "None"
              THEN /\ raised' = raised \cup {<<"pytest_runtestloop", out.exc>>}
                   /\ exitstatus' = "INTERNAL_ERROR"
                   /\ pc' = "sessionfinish"
                   /\ idx' = idx
              ELSE /\ UNCHANGED <<raised, exitstatus>>
                   /\ IF Len(items) > 0
                      THEN pc' = "setup" /\ idx' = 1
                      ELSE pc' = "sessionfinish" /\ idx' = idx
    /\ UNCHANGED <<session, environ, items, clock, caught, zz, call, ret>>

MutSetupWrongKey(item, now) ==
    [item EXCEPT !.user_properties = Append(@, <<"end_time", now>>)]

\* pytest_runtest_setup(item), now being the formatted clock reading.
RuntestSetup(item, now) ==
    [item EXCEPT !.user_properties = Append(@, <<"start_time", now>>)]

\* pytest_runtest_teardown(item)
RuntestTeardown(item, now) ==
    [item EXCEPT !.user_properties = Append(@, <<"end_time", now>>)]

pytest_runtest_setup ==
    /\ pc = "setup"
    /\ \E t \in clock..Len(Times) :
          /\ items' = [items EXCEPT ![idx] = RuntestSetup(@, strftime(Times[t]))]
          /\ clock' = t
    /\ pc' = "teardown"
    /\ UNCHANGED <<session, environ, global_properties, idx, raised, caught,
                   exitstatus, zz, call, ret>>

pytest_runtest_teardown ==
    /\ pc = "teardown"
    /\ \E t \in clock..Len(Times) :
          /\ items' = [items EXCEPT ![idx] = RuntestTeardown(@, strftime(Times[t]))]
          /\ clock' = t
    /\ IF idx < Len(items)
       THEN pc' = "setup" /\ idx' = idx + 1
       ELSE pc' = "sessionfinish" /\ idx' = idx
    /\ UNCHANGED <<session, environ, global_properties, raised, caught,
                   exitstatus, zz, call, ret>>

pytest_sessionfinish ==
    /\ pc = "sessionfinish"
    /\ \E lib \in LibraryOutcomes :
          LET out == SessionFinish(session, environ, lib)
          IN  /\ raised' = IF out.exc # "None"
                           THEN raised \cup {<<"pytest_sessionfinish", out.exc>>}
                           ELSE raised
              /\ caught' = out.caught
              /\ zz' = out.zz
    /\ pc' = "done"
    /\ UNCHANGED <<session, environ, items, global_properties, idx, clock,
                   exitstatus, call, ret>>

Next ==
    \/ perform_collect
    \/ pytest_collection_modifyitems
    \/ pytest_runtestloop
    \/ pytest_runtest_setup
    \/ pytest_runtest_teardown
    \/ pytest_sessionfinish

Spec == Init /\ [][Next]_vars

(***************************************************************************)
(* Marker capture over every combination of markers an item may carry.     *)
(***************************************************************************)
InitMarks ==
    /\ session = DefaultSession
    /\ environ = EnvNone
    /\ items = <<>>
    /\ global_properties = <<>>
    /\ pc = "collection"
    /\ idx = 0
    /\ clock = 1
    /\ raised = {}
    /\ caught = "None"
    /\ exitstatus = "OK"
    /\ zz = NoUploader
    /\ call = NoCall
    /\ ret = Returns(PyNone)

NextMarks ==
    \/ perform_collect_marked
    \/ pytest_collection_modifyitems

SpecMarks == InitMarks /\ [][NextMarks]_vars

(***************************************************************************)
(* The helpers and get_xsd called on their own, on every lookup outcome.   *)
(***************************************************************************)
InitCalls ==
    /\ session = DefaultSession
    /\ environ = EnvNone
    /\ items = <<>>
    /\ global_properties = <<>>
    /\ pc = "calls"
    /\ idx = 0
    /\ clock = 1
    /\ raised = {}
    /\ caught = "None"
    /\ exitstatus = "OK"
    /\ zz = NoUploader
    /\ call = NoCall
    /\ ret = Returns(PyNone)

WithLookups(option_name, c, i) ==
    [DefaultSession EXCEPT !.options[option_name] = [cli |-> c, ini |-> i]]

call_get_option_of_highest_precedence ==
    /\ pc = "calls"
    /\ \E n \in OptionNames, c \in LookupOutcomes, i \in LookupOutcomes :
          LET s == WithLookups(n, c, i)
          IN  /\ call' = [fn |-> "_get_option_of_highest_precedence",
                          sess |-> s, name |-> n, args |-> <<>>]
              /\ ret' = _get_option_of_highest_precedence(s, n)
    /\ UNCHANGED <<session, environ, items, global_properties, pc, idx, clock,
                   raised, caught, exitstatus, zz>>

call_get_ci_environment ==
    /\ pc = "calls"
    /\ \E c \in LookupOutcomes, i \in LookupOutcomes :
          LET s == WithLookups("ci-environment", c, i)
          IN  /\ call' = [fn |-> "_get_ci_environment", sess |-> s,
                          name |-> "ci-environment", args |-> <<>>]
              /\ ret' = _get_ci_environment(s)
    /\ UNCHANGED <<session, environ, items, global_properties, pc, idx, clock,
                   raised, caught, exitstatus, zz>>

call_get_xsd ==
    /\ pc = "calls"
    /\ \E a \in XsdArguments :
          /\ call' = [fn |-> "get_xsd", sess |-> DefaultSession, name |-> "",
                      args |-> a]
          /\ ret' = get_xsd(a)
    /\ UNCHANGED <<session, environ, items, global_properties, pc, idx, clock,
                   raised, caught, exitstatus, zz>>

NextCalls ==
    \/ call_get_option_of_highest_precedence
    \/ call_get_ci_environment
    \/ call_get_xsd

SpecCalls == InitCalls /\ [][NextCalls]_vars

(***************************************************************************)
(* Properties                                                              *)
(***************************************************************************)
JunitActive == hasplugin(session, "junitxml") /\ session.xml.present

\* The ci-environment the configuration supplies: the command line's when
\* it is truthy, else the ini file's, else the default.
ConfiguredCi ==
    LET o == session.options["ci-environment"]
    IN  IF Truthy(o.cli.val) THEN o.cli.val
        ELSE IF Truthy(o.ini.val) THEN o.ini.val ELSE Str("asc")

ValidCi == ConfiguredCi \in {Str("asc"), Str("mk8s")}

AfterLoop == pc \in {"setup", "teardown", "sessionfinish", "done"}

Names(L) == {L[i] : i \in 1..Len(L)}

Keys(props) == {props[i][1] : i \in 1..Len(props)}

\* C1: with junit XML reporting active and a ci-environment of asc or mk8s,
\* the global properties after pytest_runtestloop are exactly
\* ('ci-environment', e) followed by one (name, value or 'Unknown') pair per
\* entry of e's allowlist, and no name that is only in the other allowlist.
C1_GlobalProperties ==
    (AfterLoop /\ JunitActive /\ ValidCi) =>
        LET e == ConfiguredCi.v
            L == IF e = "asc" THEN ASC_ENV_VARS ELSE MK8S_ENV_VARS
            other == IF e = "asc" THEN MK8S_ENV_VARS ELSE ASC_ENV_VARS
        IN  /\ Len(global_properties) = 1 + Len(L)
            /\ global_properties[1] = <<"ci-environment", e>>
            /\ \A i \in 1..Len(L) :
                  global_properties[i + 1] =
                      <<L[i], IF L[i] \in DOMAIN environ THEN environ[L[i]]
                              ELSE "Unknown">>
            /\ Keys(global_properties) \cap (Names(other) \ Names(L)) = {}

C1_Witness ==
    /\ pc = "done"
    /\ JunitActive
    /\ ConfiguredCi = Str("mk8s")
    /\ "NODE_NAME" \in DOMAIN environ
    /\ Len(global_properties) > 1

\* C2 as stated: with a ci-environment outside {asc, mk8s} the run has raised
\* RuntimeError before any collection step or marker capture has taken
\* place, and no such run completes without raising.
C2_RaisesBeforeCollection ==
    (~ValidCi /\ pc # "collection") =>
        \E r \in raised : r[2] = "RuntimeError"

\* C2 amended: with a ci-environment outside {asc, mk8s} nothing is raised
\* up to and including marker capture; with junit XML reporting active
\* pytest_runtestloop raises RuntimeError, recording no global property and
\* running no test's setup or teardown; without it the run never raises.
C2_RaisesInRunTestLoop ==
    ~ValidCi =>
        /\ pc \in {"collection", "modifyitems", "runtestloop"} => raised = {}
        /\ (AfterLoop /\ JunitActive) =>
              /\ <<"pytest_runtestloop", "RuntimeError">> \in raised
              /\ exitstatus = "INTERNAL_ERROR"
              /\ pc \in {"sessionfinish", "done"}
              /\ global_properties = <<>>
              /\ \A n \in 1..Len(items) :
                    Keys(items[n].user_properties)
                        \cap {"start_time", "end_time"} = {}
        /\ ~JunitActive =>
              /\ \A r \in raised : r[1] # "pytest_runtestloop"
              /\ exitstatus = "OK"

C2_Witness ==
    /\ ~ValidCi
    /\ JunitActive
    /\ pc = "done"
    /\ <<"pytest_runtestloop", "RuntimeError">> \in raised
    /\ Len(items) > 0
    /\ <<"jira", "ABC-123">> \in
           {items[1].user_properties[i] : i \in 1..Len(items[1].user_properties)}

PairsOf(props, k) == LET Test(p) == p[1] = k IN SelectSeq(props, Test)

\* C3: after pytest_collection_modifyitems every item holds, for each of
\* test_id and jira, exactly the pairs (m, a1)..(m, an) of the marker's
\* arguments in order, none when it does not carry the marker, and no
\* property under any other marker's name.
C3_MarkersCaptured ==
    pc = "runtestloop" =>
        \A n \in 1..Len(items) :
            LET item == items[n]
            IN  /\ \A m \in {"test_id", "jira"} :
                      PairsOf(item.user_properties, m) =
                          IF item.markers[m].present
                          THEN [i \in 1..Len(item.markers[m].args) |->
                                   <<m, item.markers[m].args[i]>>]
                          ELSE <<>>
                /\ Keys(item.user_properties) \subseteq {"test_id", "jira"}

C3_Witness ==
    /\ pc = "runtestloop"
    /\ Len(items) = MaxItems
    /\ items[1].markers["jira"] = Mark(<<"ABC-456", "ABC-123">>)
    /\ items[1].markers["skip"].present
    /\ ~items[1].markers["test_id"].present
    /\ items[1].user_properties =
           << <<"jira", "ABC-456">>, <<"jira", "ABC-123">> >>

DigitChars == {Digits[i] : i \in 1..Len(Digits)}

\* %Y-%m-%dT%H:%M:%SZ
HasTimestampFormat(s) ==
    /\ Len(s) = 20
    /\ s[5] = "-" /\ s[8] = "-" /\ s[11] = "T"
    /\ s[14] = ":" /\ s[17] = ":" /\ s[20] = "Z"
    /\ \A i \in (1..20) \ {5, 8, 11, 14, 17, 20} : s[i] \in DigitChars

\* C4: in every state, an end_time property of an item is preceded in the
\* item's user_properties by a start_time property, and both values have the
\* format %Y-%m-%dT%H:%M:%SZ.
C4_StartBeforeEnd ==
    \A n \in 1..Len(items) :
        LET props == items[n].user_properties
        IN  \A j \in 1..Len(props) :
                /\ props[j][1] = "end_time" =>
                      /\ \E i \in 1..(j - 1) : props[i][1] = "start_time"
                      /\ HasTimestampFormat(props[j][2])
                /\ props[j][1] = "start_time" => HasTimestampFormat(props[j][2])

C4_Witness ==
    /\ Len(items) = MaxItems
    /\ \A n \in 1..Len(items) : "end_time" \in Keys(items[n].user_properties)

MoleculeXsd == [t |-> "stream", v |-> "pytest_rpc:data/molecule_junit.xsd"]

Mk8sXsd == [t |-> "stream", v |-> "pytest_rpc:data/mk8s_junit.xsd"]

\* C5: get_xsd returns a stream on data/molecule_junit.xsd for 'asc' and for
\* no argument, a stream on the distinct data/mk8s_junit.xsd for 'mk8s', and
\* raises RuntimeError, returning nothing, for every other argument.
C5_GetXsd ==
    call.fn = "get_xsd" =>
        /\ MoleculeXsd # Mk8sXsd
        /\ IF call.args = <<>> \/ call.args = <<Str("asc")>>
           THEN ret = Returns(MoleculeXsd)
           ELSE IF call.args = <<Str("mk8s")>>
           THEN ret = Returns(Mk8sXsd)
           ELSE ret.exc = "RuntimeError" /\ ret.val = PyNone

C5_Witness ==
    /\ call.fn = "get_xsd"
    /\ call.args = <<Str("ASC")>>
    /\ ret.exc = "RuntimeError"

UploadEnabled ==
    /\ hasplugin(session, "junitxml")
    /\ \E l \in {session.options["zigzag"].cli, session.options["zigzag"].ini} :
          Truthy(l.val)
    /\ \E l \in {session.options["qtest-project-id"].cli,
                 session.options["qtest-project-id"].ini} : Truthy(l.val)

PathAvailable == session.xml.present /\ session.xml.logfile # ""

\* C6 as stated: when pytest_sessionfinish has run with upload enabled, a
\* report file path available and the API token set, the uploader was
\* constructed and upload_test_results was invoked on it (unless the
\* library's constructor itself failed).
C6_UploadReached ==
    (pc = "done" /\ UploadEnabled /\ PathAvailable
       /\ "QTEST_API_TOKEN" \in DOMAIN environ) =>
        \/ zz.state \in {"constructed", "uploaded"}
        \/ caught = "ZigZagError"

\* C7 as stated: whenever upload is enabled no exception leaves
\* pytest_sessionfinish, and the run ends with the exit status and the
\* properties it had.
C7_FailuresSuppressed ==
    UploadEnabled => \A r \in raised : r[1] # "pytest_sessionfinish"

\* C8 as stated: with upload enabled, a report file path available and
\* QTEST_API_TOKEN unset, an error leaves pytest_sessionfinish.
C8_MissingTokenPropagates ==
    (pc = "done" /\ UploadEnabled /\ PathAvailable
       /\ "QTEST_API_TOKEN" \notin DOMAIN environ) =>
        \E r \in raised : r[1] = "pytest_sessionfinish"

\* C8 amended: with upload enabled, a report file path available and
\* QTEST_API_TOKEN unset, the KeyError is swallowed by the hook's except
\* clause: nothing leaves pytest_sessionfinish and no uploader is built.
C8_MissingTokenSwallowed ==
    (pc = "done" /\ UploadEnabled /\ PathAvailable
       /\ "QTEST_API_TOKEN" \notin DOMAIN environ) =>
        /\ \A r \in raised : r[1] # "pytest_sessionfinish"
        /\ caught = "KeyError"
        /\ zz = NoUploader

C8_Witness ==
    /\ pc = "done"
    /\ UploadEnabled
    /\ PathAvailable
    /\ "QTEST_API_TOKEN" \notin DOMAIN environ
    /\ caught = "KeyError"

\* C9: _get_option_of_highest_precedence never raises and returns the
\* command-line value when that lookup is recognised and truthy, otherwise
\* the ini value, an unrecognised lookup counting as None;
\* _get_ci_environment returns 'asc' when neither lookup supplies a value,
\* and whatever it returns is 'asc' or 'mk8s'.
C9_OptionResolution ==
    LET c == call.sess.options["ci-environment"].cli
        i == call.sess.options["ci-environment"].ini
    IN  /\ call.fn = "_get_option_of_highest_precedence" =>
              LET cl == call.sess.options[call.name].cli
                  il == call.sess.options[call.name].ini
              IN  /\ ret.exc = "None"
                  /\ ret.val = IF cl.exc = "None" /\ Truthy(cl.val) THEN cl.val
                               ELSE IF il.exc = "None" THEN il.val ELSE PyNone
        /\ call.fn = "_get_ci_environment" =>
              /\ ((c.exc # "None" \/ ~Truthy(c.val))
                    /\ (i.exc # "None" \/ ~Truthy(i.val)))
                     => ret = Returns(Str("asc"))
              /\ ret.exc = "None" => ret.val \in {Str("asc"), Str("mk8s")}
              /\ ret.exc \in {"None", "RuntimeError"}

C9_Witness ==
    /\ call.fn = "_get_option_of_highest_precedence"
    /\ call.sess.options[call.name].cli = Returns(Bool(FALSE))
    /\ call.sess.options[call.name].ini = Returns(Str("mk8s"))
    /\ ret = Returns(Str("mk8s"))

\* C10 as stated: the keys pytest_runtestloop records as global properties
\* contain no duplicate.
C10_NoDuplicateKeys ==
    \A i, j \in 1..Len(global_properties) :
        i # j => global_properties[i][1] # global_properties[j][1]

====
